---- MODULE Spec2Model ----
(***************************************************************************)
(* State-machine model of the 3D Snake FPS game loop (src/game.js).        *)
(*                                                                         *)
(* Units.  Lengths are in tenths of a world unit and times in tenths of a  *)
(* second, so that every quantity the loop computes is an integer:         *)
(*   worldSize 50 -> 500, snakeHeight 1.6 -> 16, stepSize 0.7 -> 7,        *)
(*   stepInterval 0.7 s -> 7, recordStep 0.5 -> 5.                         *)
(* Speeds keep their numeric value (tenths per tenth of a second).         *)
(* moveSpeed is in hundredths of a unit per second (2 -> 200, 0.05 -> 5).  *)
(* Yaw is counted in quarter turns (mod 4), so the forward vector is an    *)
(* integer unit vector.  Pitch is an index into a table of angles whose    *)
(* sine and cosine are rational (0, +-3/5, +-4/5); directions of bullets   *)
(* are stored scaled by dirScale = 5.                                      *)
(***************************************************************************)
EXTENDS Integers, Sequences, FiniteSets, TLC

VARIABLES
  gameActive,       \* let gameActive
  yaw,              \* let yaw (quarter turns, mod 4)
  pitch,            \* let pitch (index into the pitch table)
  camera,           \* camera.position
  stepAccumulator,  \* let stepAccumulator
  tailLength,       \* let tailLength
  moveSpeed,        \* let moveSpeed
  score,            \* let score
  tailSegments,     \* positions of the meshes in tailSegments
  tailPositions,    \* recorded path positions, oldest first
  foods,            \* positions of the meshes in foods
  enemies,          \* [pos, dir] of the meshes in enemies
  bullets,          \* [pos, dir] of the entries of bullets
  overlay,          \* the overlay: shown, message, score in the message
  hud,              \* hud.textContent: <<>> or <<score, length>>
  pointerLocked,    \* document.pointerLockElement === document.body
  rafPending,       \* number of animate callbacks requestAnimationFrame holds
  clockElapsed,     \* sum of the clock.getDelta() values of this session
  frameLog,         \* history: what the latest animate() body removed, drew
  startOnActive,    \* history: the latest startGame() found gameActive true
  spawnLog          \* history: the spawn calls of the latest handler that spawned

vars == <<gameActive, yaw, pitch, camera, stepAccumulator, tailLength,
          moveSpeed, score, tailSegments, tailPositions, foods, enemies,
          bullets, overlay, hud, pointerLocked, rafPending, clockElapsed,
          frameLog, startOnActive, spawnLog>>

----------------------------------------------------------------------------
(* Program constants *)

worldSize == 500
floorY == 0
snakeHeight == 16
recordStep == 5
initialMoveSpeed == 200
moveSpeedIncrement == 5
bulletSpeed == 25
enemySpeed == 1
stepInterval == 7
stepSize == 7
initialTailLength == 5
spawnMargin == 20
entityHeight == 5
segmentY == 2
spawnMinDist == 50
maxTries == 10
trailBuffer == 50
bulletMargin == 50
bulletHitRadius == 6
enemyMargin == 10
foodRadius == 10
growth == 2
foodScore == 1
enemyScore == 5
maxEnemies == 5
enemyRadius == 10
skipSegments == 3
tailRadius == 4
wallMargin == 5
maxPitch == 2
initialFoodCount == 2
dirScale == 5

(* Bounds of the model:                                                     *)
(*   MaxSteps       steps of a session in Spec                              *)
(*   MaxSteerSteps  steps of a session before which SpecLong still steers   *)
(*   MaxShootSteps  steps of a session in SpecShoot                         *)
(*   MaxBullets     bullets in flight when a mouse button is pressed        *)
(*   MaxPending     animate callbacks pending when start is clicked         *)
(*   MaxLifeTime    session time after which SpecLife runs no more frames   *)
(*   MaxHitTime     session time after which SpecHit runs no more frames    *)

MaxSteps == 2
MaxSteerSteps == 1
MaxShootSteps == 4
MaxBullets == 1
MaxPending == 2
MaxLifeTime == 497
MaxHitTime == 3

----------------------------------------------------------------------------
(* Vector helpers (THREE.Vector3) *)

Vec(x, y, z) == [x |-> x, y |-> y, z |-> z]

Abs(n) == IF n < 0 THEN -n ELSE n

AddScaledVector(p, d, k) == Vec(p.x + d.x * k, p.y + d.y * k, p.z + d.z * k)

DistSq(a, b) ==
  (a.x - b.x) * (a.x - b.x) + (a.y - b.y) * (a.y - b.y) + (a.z - b.z) * (a.z - b.z)

\* a.distanceTo(b) < r
DistanceLess(a, b, r) == DistSq(a, b) < r * r

\* horizontal-plane distance < r (used by isPointNearSnake and by the claims)
HorizLess(a, b, r) == (a.x - b.x) * (a.x - b.x) + (a.z - b.z) * (a.z - b.z) < r * r

RemoveAt(seq, i) == SubSeq(seq, 1, i - 1) \o SubSeq(seq, i + 1, Len(seq))

\* Math.sin / Math.cos of a yaw of q quarter turns
SinQ(q) == CASE q % 4 = 0 -> 0 [] q % 4 = 1 -> 1 [] q % 4 = 2 -> 0 [] OTHER -> -1
CosQ(q) == CASE q % 4 = 0 -> 1 [] q % 4 = 1 -> 0 [] q % 4 = 2 -> -1 [] OTHER -> 0

\* dirScale * Math.sin / Math.cos of the pitch with index p
\* (an index beyond +-2 is the vertical, +-pi/2)
PitchSin(p) ==
  CASE p = 0 -> 0 [] p = 1 -> 3 [] p = 2 -> 4 [] p = -1 -> -3 [] p = -2 -> -4
    [] p > 2 -> 5 [] OTHER -> -5
PitchCos(p) == CASE p = 0 -> 5 [] Abs(p) = 1 -> 4 [] Abs(p) = 2 -> 3 [] OTHER -> 0

----------------------------------------------------------------------------
(* Random draws.  Math.random() is modelled by a choice from small sets.    *)

\* the (x, z) pairs every specification lets randomPosition return
MainDraws == { <<0, 20>>, <<480, 0>> }

\* the (x, z) pairs randomPosition can return in the model; the last one is
\* exactly 5 units away from the origin
RandomDraws == MainDraws \cup { <<30, 40>> }

\* the unit directions spawnEnemy can draw in the model
EnemyDirs == { Vec(0, 0, -1), Vec(1, 0, 0) }

\* randomPosition(margin): x and z within worldSize - margin, y = floorY + 0.5
randomPosition(margin) ==
  { Vec(d[1], floorY + entityHeight, d[2]) :
      d \in { c \in RandomDraws : Abs(c[1]) <= worldSize - margin
                                    /\ Abs(c[2]) <= worldSize - margin } }

\* the results of successive randomPosition() calls: k times p, then q
Stream(k, p, q) == [i \in 1..(maxTries + 2) |-> IF i <= k THEN p ELSE q]

\* the streams of one spawn call: the same main position on every call
DrawStreams ==
  { Stream(0, p, p) :
      p \in { q \in randomPosition(spawnMargin) : <<q.x, q.z>> \in MainDraws } }

\* the streams of one spawn call: those of DrawStreams, and one or nine times
\* a position 2 units from the origin followed by one exactly 5 units from it
SpawnStreams ==
  DrawStreams \cup
    { Stream(k, Vec(0, floorY + entityHeight, 20), Vec(30, floorY + entityHeight, 40)) :
        k \in { 1, maxTries - 1 } }

\* isPointNearSnake(pos): horizontal distance to the camera < 5
isPointNearSnake(pos, cam) == HorizLess(pos, cam, spawnMinDist)

\* SpawnLoop with the bound on tries one too high
RECURSIVE SpawnLoopEleven(_, _, _)
SpawnLoopEleven(stream, cam, tries) ==
  LET pos == stream[tries + 1] IN
  IF isPointNearSnake(pos, cam) /\ tries + 1 < maxTries + 1
    THEN SpawnLoopEleven(stream, cam, tries + 1)
    ELSE [pos |-> pos, tries |-> tries + 1]

\* do { pos = randomPosition(); tries++ } while (near && tries < 10):
\* the position the loop ends with and the number of draws, `tries` draws
\* having been made before
RECURSIVE SpawnLoop(_, _, _)
SpawnLoop(stream, cam, tries) ==
  LET pos == stream[tries + 1] IN
  IF isPointNearSnake(pos, cam) /\ tries + 1 < maxTries
    THEN SpawnLoop(stream, cam, tries + 1)
    ELSE [pos |-> pos, tries |-> tries + 1]

\* the spawnLog entry of a spawn call: the camera position, the candidates
\* drawn and the position used
Spawned(stream, cam) ==
  LET r == SpawnLoop(stream, cam, 0) IN
  [cam |-> cam, drawn |-> SubSeq(stream, 1, r.tries), pos |-> r.pos]

\* spawnFood(): the food registries it can produce
spawnFood(s, streams) ==
  { [s EXCEPT !.foods = Append(@, e.pos), !.spawnLog = Append(@, e)] :
      e \in { Spawned(st, s.camera) : st \in streams } }

\* spawnEnemy(): the enemy registries it can produce
spawnEnemy(s, streams) ==
  { [s EXCEPT !.enemies = Append(@, [pos |-> e.pos, dir |-> d]),
              !.spawnLog = Append(@, e)] :
      e \in { Spawned(st, s.camera) : st \in streams }, d \in EnemyDirs }

----------------------------------------------------------------------------
(* The frame update, animate(), as operators on a state record *)

State ==
  [gameActive |-> gameActive, yaw |-> yaw, pitch |-> pitch, camera |-> camera,
   stepAccumulator |-> stepAccumulator, tailLength |-> tailLength,
   moveSpeed |-> moveSpeed, score |-> score, tailSegments |-> tailSegments,
   tailPositions |-> tailPositions, foods |-> foods, enemies |-> enemies,
   bullets |-> bullets, overlay |-> overlay, hud |-> hud,
   pointerLocked |-> pointerLocked, rafPending |-> rafPending,
   clockElapsed |-> clockElapsed, frameLog |-> frameLog,
   startOnActive |-> startOnActive, spawnLog |-> spawnLog]

Becomes(s) ==
  /\ gameActive' = s.gameActive
  /\ yaw' = s.yaw
  /\ pitch' = s.pitch
  /\ camera' = s.camera
  /\ stepAccumulator' = s.stepAccumulator
  /\ tailLength' = s.tailLength
  /\ moveSpeed' = s.moveSpeed
  /\ score' = s.score
  /\ tailSegments' = s.tailSegments
  /\ tailPositions' = s.tailPositions
  /\ foods' = s.foods
  /\ enemies' = s.enemies
  /\ bullets' = s.bullets
  /\ overlay' = s.overlay
  /\ hud' = s.hud
  /\ pointerLocked' = s.pointerLocked
  /\ rafPending' = s.rafPending
  /\ clockElapsed' = s.clockElapsed
  /\ frameLog' = s.frameLog
  /\ startOnActive' = s.startOnActive
  /\ spawnLog' = s.spawnLog

\* frameLog of a frame that removed nothing and has not rendered: bullets out
\* of bounds, bullets that hit an enemy, foods collected, renderer.render ran
NoLog == [out |-> 0, hit |-> 0, fed |-> 0, drawn |-> FALSE]

\* forward = (sin yaw, 0, cos yaw), normalized
Forward(q) == Vec(SinQ(q), 0, CosQ(q))

\* StepMovement with the accumulator zeroed on a step instead of reduced
StepMovementZeroed(s, dt) ==
  LET acc == s.stepAccumulator + dt IN
  IF acc >= stepInterval
    THEN LET cam == [AddScaledVector(s.camera, Forward(s.yaw), stepSize)
                       EXCEPT !.y = snakeHeight]
         IN [s EXCEPT !.stepAccumulator = 0,
                      !.camera = cam,
                      !.tailPositions = Append(@, cam)]
    ELSE [s EXCEPT !.stepAccumulator = acc]

\* lines 298-313: accumulate dt, at most one step per call
StepMovement(s, dt) ==
  LET acc == s.stepAccumulator + dt IN
  IF acc >= stepInterval
    THEN LET cam == [AddScaledVector(s.camera, Forward(s.yaw), stepSize)
                       EXCEPT !.y = snakeHeight]
         IN [s EXCEPT !.stepAccumulator = acc - stepInterval,
                      !.camera = cam,
                      !.tailPositions = Append(@, cam)]
    ELSE [s EXCEPT !.stepAccumulator = acc]

\* TrimTrail with the cap compared against the wrong length, so nothing is cut
TrimTrailNever(s) ==
  LET maxPositions == Len(s.tailPositions) + trailBuffer
      n == Len(s.tailPositions)
  IN IF n > maxPositions
       THEN [s EXCEPT !.tailPositions = SubSeq(@, n - maxPositions + 1, n)]
       ELSE s

\* TrimTrail cutting the newest positions instead of the oldest
TrimTrailNewest(s) ==
  LET maxPositions == Len(s.tailSegments) + trailBuffer
      n == Len(s.tailPositions)
  IN IF n > maxPositions
       THEN [s EXCEPT !.tailPositions = SubSeq(@, 1, maxPositions)]
       ELSE s

\* lines 317-320: keep the newest tailSegments.length + 50 positions
TrimTrail(s) ==
  LET maxPositions == Len(s.tailSegments) + trailBuffer
      n == Len(s.tailPositions)
  IN IF n > maxPositions
       THEN [s EXCEPT !.tailPositions = SubSeq(@, n - maxPositions + 1, n)]
       ELSE s

\* lines 322-336: segment i follows the i-th newest recorded position
UpdateSegments(s) ==
  [s EXCEPT !.tailSegments =
     [i \in 1..Len(@) |->
        LET idx == Len(s.tailPositions) - i + 1 IN
        IF idx >= 1
          THEN Vec(s.tailPositions[idx].x, segmentY, s.tailPositions[idx].z)
          ELSE @[i]]]

\* the enemy the inner loop (j from the end down) finds first within 0.6, or 0
FirstHit(pos, es) ==
  LET hits == { j \in 1..Len(es) : DistanceLess(pos, es[j].pos, bulletHitRadius) }
  IN IF hits = {} THEN 0 ELSE CHOOSE j \in hits : \A k \in hits : k <= j

\* b.mesh.position.addScaledVector(b.dir, bulletSpeed * dt), dir stored * dirScale
AdvanceBullet(b, dt) ==
  [b EXCEPT !.pos = Vec(b.pos.x + (b.dir.x * bulletSpeed * dt) \div dirScale,
                        b.pos.y + (b.dir.y * bulletSpeed * dt) \div dirScale,
                        b.pos.z + (b.dir.z * bulletSpeed * dt) \div dirScale)]

\* BulletOutOfBounds testing the x coordinate only
BulletOutOfBoundsXOnly(pos) == Abs(pos.x) > worldSize + bulletMargin

\* line 342: out of world bounds
BulletOutOfBounds(pos) ==
  Abs(pos.x) > worldSize + bulletMargin \/ Abs(pos.z) > worldSize + bulletMargin

\* UpdateBullets adding 1 to the score for a destroyed enemy
RECURSIVE UpdateBulletsOnePoint(_, _, _)
UpdateBulletsOnePoint(s, i, dt) ==
  IF i < 1 THEN s
  ELSE
    LET b == AdvanceBullet(s.bullets[i], dt) IN
    IF BulletOutOfBounds(b.pos)
      THEN UpdateBulletsOnePoint([s EXCEPT !.bullets = RemoveAt(@, i),
                                           !.frameLog.out = @ + 1], i - 1, dt)
      ELSE
        LET j == FirstHit(b.pos, s.enemies) IN
        IF j > 0
          THEN UpdateBulletsOnePoint([s EXCEPT !.enemies = RemoveAt(@, j),
                                               !.bullets = RemoveAt(@, i),
                                               !.score = @ + foodScore,
                                               !.frameLog.hit = @ + 1], i - 1, dt)
          ELSE UpdateBulletsOnePoint([s EXCEPT !.bullets[i] = b], i - 1, dt)

\* UpdateBullets without the break of line 358: a bullet removes every enemy
\* within 0.6 of it
RECURSIVE UpdateBulletsNoBreak(_, _, _)
UpdateBulletsNoBreak(s, i, dt) ==
  IF i < 1 THEN s
  ELSE
    LET b == AdvanceBullet(s.bullets[i], dt) IN
    IF BulletOutOfBounds(b.pos)
      THEN UpdateBulletsNoBreak([s EXCEPT !.bullets = RemoveAt(@, i),
                                          !.frameLog.out = @ + 1], i - 1, dt)
      ELSE
        LET far(e) == ~DistanceLess(b.pos, e.pos, bulletHitRadius)
            left == SelectSeq(s.enemies, far)
        IN
        IF Len(left) < Len(s.enemies)
          THEN UpdateBulletsNoBreak(
                 [s EXCEPT !.enemies = left,
                           !.bullets = RemoveAt(@, i),
                           !.score = @ + enemyScore * (Len(s.enemies) - Len(left)),
                           !.frameLog.hit = @ + 1], i - 1, dt)
          ELSE UpdateBulletsNoBreak([s EXCEPT !.bullets[i] = b], i - 1, dt)

\* lines 338-361: bullets from the last to the first
RECURSIVE UpdateBullets(_, _, _)
UpdateBullets(s, i, dt) ==
  IF i < 1 THEN s
  ELSE
    LET b == AdvanceBullet(s.bullets[i], dt) IN
    IF BulletOutOfBounds(b.pos)
      THEN UpdateBullets([s EXCEPT !.bullets = RemoveAt(@, i),
                                   !.frameLog.out = @ + 1], i - 1, dt)
      ELSE
        LET j == FirstHit(b.pos, s.enemies) IN
        IF j > 0
          THEN UpdateBullets([s EXCEPT !.enemies = RemoveAt(@, j),
                                       !.bullets = RemoveAt(@, i),
                                       !.score = @ + enemyScore,
                                       !.frameLog.hit = @ + 1], i - 1, dt)
          ELSE UpdateBullets([s EXCEPT !.bullets[i] = b], i - 1, dt)

\* lines 363-372: wander, bounce off the walls, pin the height
MoveEnemy(e, dt) ==
  LET p == AddScaledVector(e.pos, e.dir, enemySpeed * dt)
      dx == IF p.x > worldSize - enemyMargin \/ p.x < -worldSize + enemyMargin
              THEN -e.dir.x ELSE e.dir.x
      dz == IF p.z > worldSize - enemyMargin \/ p.z < -worldSize + enemyMargin
              THEN -e.dir.z ELSE e.dir.z
  IN [pos |-> [p EXCEPT !.y = floorY + entityHeight],
      dir |-> Vec(dx, e.dir.y, dz)]

UpdateEnemies(s, dt) ==
  [s EXCEPT !.enemies = [i \in 1..Len(@) |-> MoveEnemy(@[i], dt)]]

\* lines 378-399: collect food i
CollectFood(s, i) ==
  LET seg == Vec(s.camera.x, segmentY, s.camera.z)
      grown == [s EXCEPT !.foods = RemoveAt(@, i),
                         !.tailLength = @ + growth,
                         !.moveSpeed = @ + moveSpeedIncrement,
                         !.score = @ + foodScore,
                         !.frameLog.fed = @ + 1,
                         !.tailSegments = @ \o << seg, seg >>,
                         !.spawnLog = << >>]
  IN UNION { IF Len(f.enemies) < maxEnemies
               THEN { f } \cup spawnEnemy(f, DrawStreams)
               ELSE { f } : f \in spawnFood(grown, DrawStreams) }

\* lines 374-401: foods from the last to the first; the states the loop can end in
RECURSIVE CheckFoods(_, _)
CheckFoods(s, i) ==
  IF i < 1 THEN { s }
  ELSE IF DistanceLess(s.camera, s.foods[i], foodRadius)
         THEN UNION { CheckFoods(c, i - 1) : c \in CollectFood(s, i) }
         ELSE CheckFoods(s, i - 1)

\* endGame that also empties the registries and the trail
endGameClearing(s, msg) ==
  [s EXCEPT !.gameActive = FALSE,
            !.pointerLocked = FALSE,
            !.overlay = [shown |-> TRUE, msg |-> msg, score |-> s.score],
            !.foods = << >>, !.enemies = << >>, !.bullets = << >>,
            !.tailPositions = << >>]

\* lines 436-442: endGame(msg)
endGame(s, msg) ==
  [s EXCEPT !.gameActive = FALSE,
            !.pointerLocked = FALSE,
            !.overlay = [shown |-> TRUE, msg |-> msg, score |-> s.score]]

\* HitsEnemy with the distance taken in the horizontal plane
HitsEnemyFlat(s) ==
  \E i \in 1..Len(s.enemies) : HorizLess(s.camera, s.enemies[i].pos, enemyRadius)

\* line 403-410: some enemy within 1.0 of the camera
HitsEnemy(s) ==
  \E i \in 1..Len(s.enemies) : DistanceLess(s.camera, s.enemies[i].pos, enemyRadius)

\* lines 417-423: some segment from index 3 on within 0.4 of the camera
HitsTail(s) ==
  \E i \in (skipSegments + 1)..Len(s.tailSegments) :
     DistanceLess(s.camera, s.tailSegments[i], tailRadius)

\* HitsWall testing the x coordinate only
HitsWallXOnly(s) ==
  \/ s.camera.x > worldSize - wallMargin
  \/ s.camera.x < -worldSize + wallMargin

\* lines 425-426: out of bounds
HitsWall(s) ==
  \/ s.camera.x > worldSize - wallMargin
  \/ s.camera.x < -worldSize + wallMargin
  \/ s.camera.z > worldSize - wallMargin
  \/ s.camera.z < -worldSize + wallMargin

\* lines 402-432: the termination checks in their order, then HUD and render
FinishFrame(s) ==
  IF HitsEnemy(s) THEN endGame(s, "eaten")
  ELSE IF HitsTail(s) THEN endGame(s, "self")
  ELSE IF HitsWall(s) THEN endGame(s, "wall")
  ELSE [s EXCEPT !.hud = << s.score, Len(s.tailSegments) >>,
                 !.frameLog.drawn = TRUE]

\* lines 287-432: the body of animate() on an active game, with dt = clock.getDelta()
AnimateBody(s, dt) ==
  LET s0 == [s EXCEPT !.rafPending = @ + 1, !.clockElapsed = @ + dt,
                      !.frameLog = NoLog]
      s1 == UpdateSegments(TrimTrail(StepMovement(s0, dt)))
      s2 == UpdateBullets(s1, Len(s1.bullets), dt)
      s3 == UpdateEnemies(s2, dt)
  IN { FinishFrame(f) : f \in CheckFoods(s3, Len(s3.foods)) }

\* InitialSegments with the loop run one time less than tailLength
InitialSegmentsShort ==
  [i \in 1..(initialTailLength - 1) |-> Vec(0, segmentY, -(i - 1) * recordStep)]

\* lines 122-130 and 213-220: the initial tail segments
InitialSegments ==
  [i \in 1..initialTailLength |-> Vec(0, segmentY, -(i - 1) * recordStep)]

\* SpawnInitial with one spawnFood() call missing
SpawnInitialOneFood(s, streams) ==
  UNION { UNION { spawnEnemy(c, streams) : c \in spawnEnemy(b, streams) } : b \in spawnFood(s, streams) }

\* SpawnInitial leaving 6 enemies (each of the 2 spawned three times)
SpawnInitialSixEnemies(s, streams) ==
  { [e EXCEPT !.enemies = @ \o @ \o @] :
      e \in UNION { UNION { UNION { spawnEnemy(c, streams) : c \in spawnEnemy(b, streams) }
                            : b \in spawnFood(a, streams) } : a \in spawnFood(s, streams) } }

\* spawnFood(); spawnFood(); spawnEnemy(); spawnEnemy();
SpawnInitial(s, streams) ==
  UNION { UNION { UNION { spawnEnemy(c, streams) : c \in spawnEnemy(b, streams) }
                  : b \in spawnFood(a, streams) } : a \in spawnFood(s, streams) }

----------------------------------------------------------------------------
(* Initial state: after initScene() and setupPointerLock() *)

SceneBeforeSpawn ==
  [gameActive |-> FALSE, yaw |-> 0, pitch |-> 0,
   camera |-> Vec(0, snakeHeight, 0),
   stepAccumulator |-> 0, tailLength |-> initialTailLength,
   moveSpeed |-> initialMoveSpeed, score |-> 0,
   tailSegments |-> InitialSegments, tailPositions |-> << >>,
   foods |-> << >>, enemies |-> << >>, bullets |-> << >>,
   overlay |-> [shown |-> TRUE, msg |-> "start", score |-> 0],
   hud |-> << >>, pointerLocked |-> FALSE, rafPending |-> 0,
   clockElapsed |-> 0, frameLog |-> NoLog, startOnActive |-> FALSE,
   spawnLog |-> << >>]

\* initScene without its spawn calls
initSceneEmpty == { SceneBeforeSpawn }

\* lines 74-140: initScene()
initScene == SpawnInitial(SceneBeforeSpawn, DrawStreams)

Init ==
  \E s \in initScene :
    /\ gameActive = s.gameActive
    /\ yaw = s.yaw
    /\ pitch = s.pitch
    /\ camera = s.camera
    /\ stepAccumulator = s.stepAccumulator
    /\ tailLength = s.tailLength
    /\ moveSpeed = s.moveSpeed
    /\ score = s.score
    /\ tailSegments = s.tailSegments
    /\ tailPositions = s.tailPositions
    /\ foods = s.foods
    /\ enemies = s.enemies
    /\ bullets = s.bullets
    /\ overlay = s.overlay
    /\ hud = s.hud
    /\ pointerLocked = s.pointerLocked
    /\ rafPending = s.rafPending
    /\ clockElapsed = s.clockElapsed
    /\ frameLog = s.frameLog
    /\ startOnActive = s.startOnActive
    /\ spawnLog = s.spawnLog

----------------------------------------------------------------------------
(* Event handlers *)

\* ResetGame with the tail length reset to one less than the segments rebuilt
ResetGameShort(s, streams) ==
  SpawnInitial(
    [s EXCEPT !.overlay.shown = FALSE,
              !.pointerLocked = TRUE,
              !.yaw = 0, !.pitch = 0,
              !.camera = Vec(0, snakeHeight, 0),
              !.tailLength = initialTailLength - 1,
              !.stepAccumulator = 0,
              !.moveSpeed = initialMoveSpeed,
              !.score = 0,
              !.foods = << >>, !.enemies = << >>, !.bullets = << >>,
              !.tailPositions = << >>,
              !.tailSegments = InitialSegments,
              !.spawnLog = << >>],
    streams)

\* ResetGame without the removal of the old bullets
ResetGameKeepsBullets(s, streams) ==
  SpawnInitial(
    [s EXCEPT !.overlay.shown = FALSE,
              !.pointerLocked = TRUE,
              !.yaw = 0, !.pitch = 0,
              !.camera = Vec(0, snakeHeight, 0),
              !.tailLength = initialTailLength,
              !.stepAccumulator = 0,
              !.moveSpeed = initialMoveSpeed,
              !.score = 0,
              !.foods = << >>, !.enemies = << >>,
              !.tailPositions = << >>,
              !.tailSegments = InitialSegments,
              !.spawnLog = << >>],
    streams)

\* lines 190-224: the reset startGame() performs
ResetGame(s, streams) ==
  SpawnInitial(
    [s EXCEPT !.overlay.shown = FALSE,
              !.pointerLocked = TRUE,
              !.yaw = 0, !.pitch = 0,
              !.camera = Vec(0, snakeHeight, 0),
              !.tailLength = initialTailLength,
              !.stepAccumulator = 0,
              !.moveSpeed = initialMoveSpeed,
              !.score = 0,
              !.foods = << >>, !.enemies = << >>, !.bullets = << >>,
              !.tailPositions = << >>,
              !.tailSegments = InitialSegments,
              !.spawnLog = << >>],
    streams)

\* startGame without the guard of line 186
startGameUnguarded(streams) ==
  \E r \in ResetGame(State, streams) :
    \E f \in AnimateBody([r EXCEPT !.gameActive = TRUE,
                                   !.clockElapsed = 0,
                                   !.startOnActive = gameActive], 0) :
      Becomes(f)

\* lines 185-229: click on the start button; the first animate() runs inside
\* the call, right after clock.getDelta() has restarted the clock
startGame(streams) ==
  IF gameActive
    THEN Becomes([State EXCEPT !.startOnActive = TRUE])
    ELSE \E r \in ResetGame(State, streams) :
           \E f \in AnimateBody([r EXCEPT !.gameActive = TRUE,
                                          !.clockElapsed = 0,
                                          !.startOnActive = gameActive], 0) :
             Becomes(f)

\* onMouseMove without the clamp of lines 238-240
onMouseMoveUnclamped(mx, my) ==
  IF ~gameActive \/ ~pointerLocked
    THEN UNCHANGED vars
    ELSE /\ yaw' = (yaw - mx) % 4
         /\ pitch' = pitch - my
         /\ UNCHANGED <<gameActive, camera, stepAccumulator, tailLength,
                        moveSpeed, score, tailSegments, tailPositions, foods,
                        enemies, bullets, overlay, hud, pointerLocked,
                        rafPending, clockElapsed, frameLog, startOnActive, spawnLog>>

\* lines 234-241: mouse move by mx quarter turns and my pitch steps
onMouseMove(mx, my) ==
  IF ~gameActive \/ ~pointerLocked
    THEN UNCHANGED vars
    ELSE LET p == pitch - my IN
         /\ yaw' = (yaw - mx) % 4
         /\ pitch' = IF p > maxPitch THEN maxPitch
                     ELSE IF p < -maxPitch THEN -maxPitch ELSE p
         /\ UNCHANGED <<gameActive, camera, stepAccumulator, tailLength,
                        moveSpeed, score, tailSegments, tailPositions, foods,
                        enemies, bullets, overlay, hud, pointerLocked,
                        rafPending, clockElapsed, frameLog, startOnActive, spawnLog>>

\* lines 267-282: shoot()
shoot(s) ==
  [s EXCEPT !.bullets =
     Append(@, [pos |-> s.camera,
                dir |-> Vec(SinQ(s.yaw) * PitchCos(s.pitch),
                            PitchSin(s.pitch),
                            CosQ(s.yaw) * PitchCos(s.pitch))])]

\* onMouseDown without the guard of line 245
onMouseDownUnguarded(button) ==
  IF ~pointerLocked THEN Becomes([State EXCEPT !.pointerLocked = TRUE])
  ELSE IF button = 0 THEN Becomes(shoot(State))
  ELSE UNCHANGED vars

\* lines 244-255: mouse button pressed
onMouseDown(button) ==
  IF ~gameActive THEN UNCHANGED vars
  ELSE IF ~pointerLocked THEN Becomes([State EXCEPT !.pointerLocked = TRUE])
  ELSE IF button = 0 THEN Becomes(shoot(State))
  ELSE UNCHANGED vars

\* lines 257-263: the browser releases the pointer lock (Escape); the handler
\* changes nothing
onPointerLockChange ==
  /\ pointerLocked
  /\ pointerLocked' = FALSE
  /\ UNCHANGED <<gameActive, yaw, pitch, camera, stepAccumulator, tailLength,
                 moveSpeed, score, tailSegments, tailPositions, foods, enemies,
                 bullets, overlay, hud, rafPending, clockElapsed, frameLog,
                 startOnActive, spawnLog>>

\* animate without the guard of line 286
animateUnguarded(dt) ==
  /\ rafPending > 0
  /\ \E f \in AnimateBody([State EXCEPT !.rafPending = @ - 1], dt) : Becomes(f)

\* lines 285-433: a callback requestAnimationFrame holds is run
animate(dt) ==
  /\ rafPending > 0
  /\ IF ~gameActive
       THEN /\ rafPending' = rafPending - 1
            /\ UNCHANGED <<gameActive, yaw, pitch, camera, stepAccumulator,
                           tailLength, moveSpeed, score, tailSegments,
                           tailPositions, foods, enemies, bullets, overlay,
                           hud, pointerLocked, clockElapsed, frameLog,
                           startOnActive, spawnLog>>
       ELSE \E f \in AnimateBody([State EXCEPT !.rafPending = @ - 1], dt) :
              Becomes(f)

----------------------------------------------------------------------------
(* Specifications *)

\* Spec: short sessions with every kind of frame duration and free steering
DtSet == { 3, 7, 70 }
MoveX == { 1, 2 }

\* the start button can be clicked with the mouse while the overlay shows it
StartClick == overlay.shown /\ rafPending < MaxPending /\ startGame(DrawStreams)
MouseMove == \E mx \in MoveX : onMouseMove(mx, 0)
Frame ==
  /\ Len(tailPositions) < MaxSteps
  /\ \E dt \in DtSet : animate(dt)

Next == StartClick \/ MouseMove \/ Frame

Spec == Init /\ [][Next]_vars

\* SpecLong: whole sessions, one step per frame, the heading chosen before the
\* first steps of a session
SteerAtStart ==
  /\ Len(tailPositions) < MaxSteerSteps
  /\ \E mx \in MoveX : onMouseMove(mx, 0)
StepFrame == animate(stepInterval)

NextLong == StartClick \/ SteerAtStart \/ StepFrame

SpecLong == Init /\ [][NextLong]_vars

\* SpecShoot: short sessions with aiming before the first step, shooting and
\* pointer-lock changes at any time
Aims == { <<1, 0>>, <<0, 1>> }
Buttons == { 0, 2 }

Aim ==
  /\ tailPositions = << >>
  /\ \E a \in Aims : onMouseMove(a[1], a[2])
MouseDown == Len(bullets) < MaxBullets /\ \E b \in Buttons : onMouseDown(b)
LockChange == onPointerLockChange
ShootFrame ==
  /\ Len(tailPositions) < MaxShootSteps
  /\ animate(stepInterval)

NextShoot == StartClick \/ Aim \/ MouseDown \/ LockChange \/ ShootFrame

SpecShoot == Init /\ [][NextShoot]_vars

\* SpecLife: whole sessions that head straight for the wall and can look back
\* one step before it, with shooting while they run and mouse input while no
\* session runs; the callbacks left pending by an ended session still fire
NearWall ==
  \/ Abs(camera.x) + stepSize > worldSize - wallMargin
  \/ Abs(camera.z) + stepSize > worldSize - wallMargin

TurnAtWall == NearWall /\ onMouseMove(2, 0)
IdleInput ==
  /\ ~gameActive
  /\ \/ \E a \in Aims : onMouseMove(a[1], a[2])
     \/ \E b \in Buttons : onMouseDown(b)
LifeFrame ==
  /\ gameActive => clockElapsed < MaxLifeTime
  /\ animate(stepInterval)

NextLife ==
  \/ StartClick
  \/ MouseDown
  \/ TurnAtWall
  \/ IdleInput
  \/ LifeFrame

SpecLife == Init /\ [][NextLife]_vars

\* SpecHit: the first tenths of a second of a session in frames of 0.1 s, with
\* the view lowered step by step and shooting
HitDts == { 1 }

LowerView == tailPositions = << >> /\ onMouseMove(0, 1)
HitFrame == clockElapsed < MaxHitTime /\ \E dt \in HitDts : animate(dt)

NextHit == StartClick \/ LowerView \/ MouseDown \/ HitFrame

SpecHit == Init /\ [][NextHit]_vars

\* SpecTrail: whole sessions with the heading and the pitch of the view chosen
\* before the first step, one step per frame
NextTrail == StartClick \/ Aim \/ StepFrame

SpecTrail == Init /\ [][NextTrail]_vars

\* SpecClick: short sessions with shooting and with clicks on the start button
\* while they run (a click() call or a key press reaches the hidden button)
StartWhileRunning == gameActive /\ startGame(DrawStreams)

NextClick == StartClick \/ StartWhileRunning \/ MouseDown \/ ShootFrame

SpecClick == Init /\ [][NextClick]_vars

\* Sessions whose spawn calls draw mixed candidate streams, followed by a
\* few short frames.
StartSpawn == overlay.shown /\ rafPending < MaxPending /\ startGame(SpawnStreams)

NextSpawn == StartSpawn \/ HitFrame

SpecSpawn == Init /\ [][NextSpawn]_vars

\* SpecFly: the first tenths of a second of a session in frames of 0.1 s, with
\* the view lowered step by step and a shot whenever no bullet is in flight;
\* after them frames of one step interval go on for as long as a bullet is in
\* flight.  Every pending callback runs eventually.
FlyShoot == clockElapsed < MaxHitTime /\ bullets = << >> /\ MouseDown
FlyOut ==
  /\ clockElapsed >= MaxHitTime
  /\ bullets # << >>
  /\ animate(stepInterval)

NextFly == StartClick \/ LowerView \/ FlyShoot \/ HitFrame \/ FlyOut

\* a callback is pending and SpecFly lets it run
FrameReady == rafPending > 0 /\ (clockElapsed < MaxHitTime \/ bullets # << >>)

\* a pending callback has run
FrameRan == clockElapsed' > clockElapsed \/ rafPending' < rafPending

\* WF_vars(HitFrame \/ FlyOut), with ENABLED written as the state predicate
\* FrameReady and the step as the action FrameRan
FrameFairness == []<>(~FrameReady) \/ []<><<FrameRan>>_vars

SpecFly == Init /\ [][NextFly]_vars /\ FrameFairness

----------------------------------------------------------------------------
(* Properties *)

\* a frame callback ran on an active game and took dt > 0 from the clock
RunningFrame == gameActive /\ clockElapsed' > clockElapsed

FrameDt == clockElapsed' - clockElapsed

\* the pickups / adversaries within `r` of point p in the horizontal plane
FoodsInReach(p, r) == { i \in 1..Len(foods) : HorizLess(p, foods[i], r) }
EnemiesInReach(p, es, r) == { i \in 1..Len(es) : HorizLess(p, es[i].pos, r) }

\* C1: in every frame of a running session dt is added to the accumulator; a
\* step fires iff the sum is >= stepInterval, it is the only step of the call,
\* it moves the player by stepSize along the forward vector, and the
\* accumulator keeps the sum minus exactly one stepInterval.
C1_OneStepPerFrame ==
  [][ RunningFrame =>
        LET acc == stepAccumulator + FrameDt IN
        IF acc >= stepInterval
          THEN /\ stepAccumulator' = acc - stepInterval
               /\ camera' = Vec(camera.x + stepSize * SinQ(yaw), snakeHeight,
                                camera.z + stepSize * CosQ(yaw))
               /\ tailPositions' = Append(tailPositions, camera')
          ELSE /\ stepAccumulator' = acc
               /\ camera' = camera
               /\ tailPositions' = tailPositions ]_vars

\* C1 witness: one frame of 10 x stepInterval from an empty accumulator gave
\* one step and left 9 x stepInterval
C1_Witness ==
  /\ gameActive
  /\ clockElapsed = 10 * stepInterval
  /\ stepAccumulator = 9 * stepInterval
  /\ Len(tailPositions) = 1

\* C2: the body length never decreases from a state of a running session to
\* the next, and every start() that takes effect sets it to 5.
C2_LengthMonotone ==
  [][ /\ gameActive => tailLength' >= tailLength
      /\ (~gameActive /\ gameActive') => tailLength' = initialTailLength ]_vars

\* C2 witness: a session that ended at the wall has been restarted and has
\* taken steps
C2_Witness ==
  /\ gameActive
  /\ overlay.msg = "wall"
  /\ Len(tailPositions) >= 2
  /\ tailLength = initialTailLength

\* C3: the trail never holds more than (number of body segments + 50) entries.
C3_TrailBounded == Len(tailPositions) <= Len(tailSegments) + trailBuffer

\* C3 witness: the trail is full and its oldest entries have been cut (more
\* steps were taken than the trail holds)
C3_Witness ==
  /\ gameActive
  /\ Len(tailPositions) = Len(tailSegments) + trailBuffer
  /\ clockElapsed > stepInterval * (Len(tailSegments) + trailBuffer)

C5_ContactEndsSession ==
  EnemiesInReach(camera, enemies, enemyRadius) # {}
    => (~gameActive /\ overlay.msg = "eaten")

\* C6 (as claimed): a frame of a fresh session (length 5, score 0) that leaves
\* the player within radius 1 of exactly one pickup collects it: length 7,
\* score 1, and as many pickups as before.
C6_PickupCollected ==
  [][ ( /\ RunningFrame
        /\ tailLength = initialTailLength /\ score = 0
        /\ Cardinality(FoodsInReach(camera', foodRadius)) = 1 )
      => ( /\ tailLength' = initialTailLength + growth
           /\ score' = foodScore
           /\ Len(foods') = Len(foods) ) ]_vars

\* C7 (as claimed): a frame that leaves the player intersecting an adversary
\* (and no pickup in reach) ends the session with cause eaten-by-adversary and
\* the score of the message is the score before the frame.
C7_EatenKeepsScore ==
  [][ ( /\ RunningFrame
        /\ FoodsInReach(camera', foodRadius) = {}
        /\ EnemiesInReach(camera', enemies', enemyRadius) # {} )
      => ( /\ ~gameActive'
           /\ overlay'.msg = "eaten"
           /\ overlay'.score = score ) ]_vars

\* C8 (as claimed): no state has the player within 0.4, in the horizontal
\* plane, of a body segment of index >= 3 unless the session has ended, with
\* the self-collision outcome or by an adversary contact checked before it.
C8_TailContactEndsSession ==
  (\E i \in (skipSegments + 1)..Len(tailSegments) :
      HorizLess(camera, tailSegments[i], tailRadius))
    => (~gameActive /\ overlay.msg \in { "self", "eaten" })

\* C10: in a frame, every projectile whose advanced position has |x| > 55 or
\* |z| > 55 is gone from the registry after the frame; when every projectile
\* leaves this way (and no pickup is collected) the score and the number of
\* adversaries are unchanged.
C10_OutOfBoundsRemoved ==
  [][ RunningFrame =>
        LET adv == [i \in 1..Len(bullets) |-> AdvanceBullet(bullets[i], FrameDt)]
            out == { i \in 1..Len(bullets) :
                       \/ Abs(adv[i].pos.x) > worldSize + bulletMargin
                       \/ Abs(adv[i].pos.z) > worldSize + bulletMargin }
        IN /\ \A i \in out : \A k \in 1..Len(bullets') : bullets'[k] # adv[i]
           /\ (out = 1..Len(bullets) /\ tailLength' = tailLength)
                => (bullets' = << >> /\ score' = score
                    /\ Len(enemies') = Len(enemies)) ]_vars

\* C10 witness: the latest frame of a running session removed a projectile
\* for leaving the bounds; nothing was hit, the score is still 0 and both
\* adversaries are still there
C10_Witness ==
  /\ gameActive
  /\ frameLog.out > 0
  /\ frameLog.hit = 0
  /\ score = 0
  /\ Len(enemies) = 2

\* no session runs: before the first start / after a session has ended
Idle == ~gameActive /\ overlay.msg = "start"
Ended == ~gameActive /\ overlay.msg # "start"

\* C11: a start() that finds the session running changes nothing: mode, score,
\* length, speed, accumulator, orientation, position, body, trail, registries,
\* overlay, HUD and pointer lock are as before, and no frame callback is added.
C11_StartWhileRunningNoOp ==
  [][ (startOnActive' /\ ~startOnActive) =>
        UNCHANGED <<gameActive, yaw, pitch, camera, stepAccumulator,
                    tailLength, moveSpeed, score, tailSegments, tailPositions,
                    foods, enemies, bullets, overlay, hud, pointerLocked,
                    rafPending, clockElapsed>> ]_vars

\* C11 witness: start was clicked in a running session that has taken steps
\* and has a projectile in flight; the session still runs with one callback
C11_Witness ==
  /\ startOnActive
  /\ gameActive
  /\ Len(tailPositions) >= 2
  /\ bullets # << >>
  /\ rafPending = 1

\* C12: every start() that takes effect, from Idle or from Ended, leaves a
\* running session with score 0, length 5 and 5 body segments, speed 2, an
\* empty accumulator, yaw and pitch 0, the player at the origin at eye height,
\* an empty trail, no projectile, and exactly 2 pickups and 2 adversaries, each
\* at a freshly drawn spawn position; and an Ended state never becomes Idle.
C12_StartFresh ==
  [][ /\ (~gameActive /\ gameActive') =>
           /\ score' = 0
           /\ tailLength' = initialTailLength
           /\ Len(tailSegments') = initialTailLength
           /\ moveSpeed' = initialMoveSpeed
           /\ stepAccumulator' = 0
           /\ yaw' = 0 /\ pitch' = 0
           /\ camera' = Vec(0, snakeHeight, 0)
           /\ tailPositions' = << >>
           /\ bullets' = << >>
           /\ Len(foods') = initialFoodCount
           /\ Len(enemies') = 2
           /\ \A i \in 1..Len(foods') :
                 foods'[i] \in randomPosition(spawnMargin)
           /\ \A i \in 1..Len(enemies') :
                 enemies'[i].pos \in randomPosition(spawnMargin)
      /\ Ended => ~Idle' ]_vars

\* C12 witness: a session that ended at the wall has just been restarted
C12_Witness ==
  /\ gameActive
  /\ overlay.msg = "wall"
  /\ clockElapsed = 0
  /\ tailPositions = << >>
  /\ score = 0

\* C13 (as claimed): in every Ended state the pickup, adversary and projectile
\* registries and the trail are empty.
C13_EndClearsState ==
  Ended => /\ foods = << >>
           /\ enemies = << >>
           /\ bullets = << >>
           /\ tailPositions = << >>

\* C13 (amended): the frame that ends a session leaves the pickups, the
\* number of adversaries and the trail (whose newest entry is the player's
\* position) in place, the Ended state keeps the registries and the trail as
\* that frame left them, and the next start() empties them before it spawns:
\* right after it the trail and the projectiles are empty and the 2 pickups
\* and 2 adversaries are at freshly drawn spawn positions.
C13_ClearedByStart ==
  [][ /\ (gameActive /\ ~gameActive') =>
           /\ foods' = foods
           /\ Len(enemies') = Len(enemies)
           /\ tailPositions' # << >>
           /\ tailPositions'[Len(tailPositions')] = camera'
      /\ (Ended /\ Ended') =>
           UNCHANGED <<foods, enemies, bullets, tailPositions>>
      /\ (Ended /\ gameActive') =>
           /\ tailPositions' = << >>
           /\ bullets' = << >>
           /\ Len(foods') = initialFoodCount
           /\ Len(enemies') = 2
           /\ \A i \in 1..Len(foods') :
                 foods'[i] \in randomPosition(spawnMargin)
           /\ \A i \in 1..Len(enemies') :
                 enemies'[i].pos \in randomPosition(spawnMargin) ]_vars

\* C13 witness: a session has ended at the wall and the Ended state still
\* holds 2 pickups, 2 adversaries, a projectile and a full trail
C13_Witness ==
  /\ Ended
  /\ overlay.msg = "wall"
  /\ Len(foods) = 2
  /\ Len(enemies) = 2
  /\ bullets # << >>
  /\ Len(tailPositions) = Len(tailSegments) + trailBuffer

\* C14: the frame in which a termination check fires updates neither the HUD
\* nor the rendering, and between two Ended states (a late frame callback, a
\* mouse move, a mouse button) score, length, speed, position, orientation,
\* accumulator, body, trail, registries, HUD and overlay are unchanged.
C14_FrozenWhenEnded ==
  [][ /\ (gameActive /\ ~gameActive') => (hud' = hud /\ ~frameLog'.drawn)
      /\ (Ended /\ Ended') =>
           UNCHANGED <<score, tailLength, moveSpeed, camera, yaw, pitch,
                       stepAccumulator, tailSegments, tailPositions, foods,
                       enemies, bullets, hud, overlay, clockElapsed>> ]_vars

\* C14 witness: a session ended at the wall with a projectile in flight, its
\* last frame did not render, and the callback that frame had requested has
\* since fired on the ended game
C14_Witness ==
  /\ Ended
  /\ overlay.msg = "wall"
  /\ ~frameLog.drawn
  /\ bullets # << >>
  /\ rafPending = 0

\* C15: while no session runs (Idle or Ended) nothing but the firing of a left
\* over frame callback changes the state, so a fire request creates no
\* projectile and changes nothing else; and in a running session a step
\* other than a frame that changes the projectiles appends exactly one, at the
\* player's position and along the view direction, and changes nothing else.
C15_FireOnlyWhileRunning ==
  [][ /\ (~gameActive /\ ~gameActive') =>
           UNCHANGED <<yaw, pitch, camera, stepAccumulator, tailLength,
                       moveSpeed, score, tailSegments, tailPositions, foods,
                       enemies, bullets, overlay, hud, pointerLocked,
                       clockElapsed>>
      /\ (gameActive /\ clockElapsed' = clockElapsed /\ bullets' # bullets) =>
           /\ bullets' =
                Append(bullets,
                       [pos |-> camera,
                        dir |-> Vec(SinQ(yaw) * PitchCos(pitch), PitchSin(pitch),
                                    CosQ(yaw) * PitchCos(pitch))])
           /\ UNCHANGED <<gameActive, yaw, pitch, camera, stepAccumulator,
                          tailLength, moveSpeed, score, tailSegments,
                          tailPositions, foods, enemies, overlay, hud,
                          pointerLocked, rafPending, clockElapsed>> ]_vars

\* C15 witness: in a session restarted after an Ended state the player has
\* just fired: one projectile, still at the player's position
C15_Witness ==
  /\ gameActive
  /\ overlay.msg = "wall"
  /\ Len(tailPositions) >= 1
  /\ Len(bullets) = 1
  /\ bullets[1].pos = camera

\* C16 (as claimed): in the Idle state the pickup, adversary and projectile
\* registries are all empty.
C16_IdleEmpty ==
  Idle => (foods = << >> /\ enemies = << >> /\ bullets = << >>)

\* C16 (amended): in the Idle state there is no projectile and no trail, and
\* the registries hold the 2 pickups and the 2 adversaries that initScene
\* spawned, each still at its spawn position (nothing moves them before the
\* first start).
C16_IdleHoldsInitialSpawns ==
  Idle => /\ bullets = << >>
          /\ tailPositions = << >>
          /\ Len(foods) = initialFoodCount
          /\ Len(enemies) = 2
          /\ \A i \in 1..Len(foods) : foods[i] \in randomPosition(spawnMargin)
          /\ \A i \in 1..Len(enemies) :
                enemies[i].pos \in randomPosition(spawnMargin)

\* C16 witness: the page has loaded and start has not been clicked: the
\* start overlay is shown, the HUD is still empty, no frame callback is
\* pending, and 2 pickups and 2 adversaries are in the scene
C16_Witness ==
  /\ Idle
  /\ overlay.shown
  /\ hud = << >>
  /\ rafPending = 0
  /\ Len(foods) = 2
  /\ Len(enemies) = 2

\* C17 (as claimed): a frame that brings the player within radius 1 of a
\* pickup (which collects it) leaves the player faster than before, and no
\* frame of a running session lowers the speed.
C17_PickupSpeedsUp ==
  [][ RunningFrame =>
        /\ moveSpeed' >= moveSpeed
        /\ FoodsInReach(camera', foodRadius) # {} => moveSpeed' > moveSpeed ]_vars

\* C18 (as claimed): at most one frame callback is pending at any time, so
\* one frame loop drives a session and one update runs per rendered frame.
C18_SingleFrameLoop == rafPending <= 1

\* C19: in a frame a projectile destroys at most one adversary: the number of
\* adversaries removed equals the number of projectiles removed other than
\* for leaving the bounds, and the score gained is 5 times that number; a
\* single projectile that stays in bounds is removed, together with exactly
\* one adversary, iff some adversary is within 0.6 of its advanced position,
\* and otherwise flies on.
C19_OneAdversaryPerProjectile ==
  [][ (RunningFrame /\ tailLength' = tailLength) =>
        LET adv == [i \in 1..Len(bullets) |-> AdvanceBullet(bullets[i], FrameDt)]
            out == { i \in 1..Len(bullets) :
                       \/ Abs(adv[i].pos.x) > worldSize + bulletMargin
                       \/ Abs(adv[i].pos.z) > worldSize + bulletMargin }
            hits == (Len(bullets) - Len(bullets')) - Cardinality(out)
            inReach(i) == { j \in 1..Len(enemies) :
                              DistanceLess(adv[i].pos, enemies[j].pos,
                                           bulletHitRadius) }
        IN /\ Len(enemies) - Len(enemies') = hits
           /\ score' - score = enemyScore * hits
           /\ hits <= Len(bullets) - Cardinality(out)
           /\ (Len(bullets) = 1 /\ out = {}) =>
                IF inReach(1) = {}
                  THEN hits = 0 /\ bullets' = << adv[1] >>
                  ELSE hits = 1 /\ bullets' = << >> ]_vars

\* C19 witness: the latest frame's projectile hit an adversary while both
\* adversaries were within 0.6 of it: one adversary is gone, the other is
\* still there next to the point (0, 0.5, 2.0) both were spawned at, the
\* projectile is gone and the score is 5
C19_Witness ==
  /\ gameActive
  /\ frameLog.hit = 1
  /\ bullets = << >>
  /\ score = enemyScore
  /\ Len(enemies) = 1
  /\ DistanceLess(enemies[1].pos, Vec(0, entityHeight, 20), 2)

\* C20 (as claimed): in every state each adversary is inside the arena in the
\* horizontal plane: |x| <= 50 and |z| <= 50.
C20_EnemiesInsideArena ==
  \A i \in 1..Len(enemies) :
    Abs(enemies[i].pos.x) <= worldSize /\ Abs(enemies[i].pos.z) <= worldSize

\* C21 (as claimed): an adversary that is beyond the inward margin on an axis
\* (|x| > 49 or |z| > 49) has its direction component on that axis pointing
\* back to the interior of the arena.
C21_BeyondMarginHeadsInward ==
  \A i \in 1..Len(enemies) :
    LET e == enemies[i] IN
    /\ e.pos.x > worldSize - enemyMargin => e.dir.x < 0
    /\ e.pos.x < -worldSize + enemyMargin => e.dir.x > 0
    /\ e.pos.z > worldSize - enemyMargin => e.dir.z < 0
    /\ e.pos.z < -worldSize + enemyMargin => e.dir.z > 0

\* C22: after every frame that leaves the session running the player is
\* within the inward margin, |x| <= 49.5 and |z| <= 49.5; and a frame that
\* puts the player beyond it, with no adversary and no body segment of index
\* >= 3 in contact in the horizontal plane, ends the session in that frame
\* with the wall outcome.
C22_WallEndsSession ==
  [][ LET beyond == \/ Abs(camera'.x) > worldSize - wallMargin
                    \/ Abs(camera'.z) > worldSize - wallMargin
          contact ==
            \/ EnemiesInReach(camera', enemies', enemyRadius) # {}
            \/ \E i \in (skipSegments + 1)..Len(tailSegments') :
                 HorizLess(camera', tailSegments'[i], tailRadius)
      IN /\ gameActive' => ~beyond
         /\ (RunningFrame /\ beyond /\ ~contact) =>
              /\ ~gameActive'
              /\ overlay'.shown
              /\ overlay'.msg = "wall" ]_vars

\* C22 witness: a session that was steered to the left has ended with the
\* wall outcome one step beyond the margin of the wall at x = -50
C22_Witness ==
  /\ Ended
  /\ overlay.msg = "wall"
  /\ camera.x < -worldSize + wallMargin
  /\ camera.x + stepSize >= -worldSize + wallMargin

C24_TrailFollowsPlayer ==
  [][ LET stepped == RunningFrame /\ camera' # camera
          full == IF stepped THEN Append(tailPositions, camera')
                             ELSE tailPositions
          cut == Len(full) - Len(tailPositions')
      IN /\ camera' # camera =>
              \/ /\ ~gameActive /\ gameActive'
                 /\ camera' = Vec(0, snakeHeight, 0)
                 /\ tailPositions' = << >>
              \/ /\ RunningFrame
                 /\ camera' = Vec(camera.x + stepSize * SinQ(yaw), snakeHeight,
                                  camera.z + stepSize * CosQ(yaw))
         /\ RunningFrame =>
              /\ cut >= 0
              /\ tailPositions' = SubSeq(full, cut + 1, Len(full))
              /\ cut > 0 => Len(tailPositions') = Len(tailSegments') + trailBuffer
         /\ tailPositions' # << >> =>
              tailPositions'[Len(tailPositions')] = camera' ]_vars

\* C24 witness: a session walking to the left with the view lowered has taken
\* more steps than the trail holds: the oldest entries are cut, the newest
\* entry is the player's position, at eye height
C24_Witness ==
  /\ gameActive
  /\ yaw = 3
  /\ pitch < 0
  /\ clockElapsed > stepInterval * (Len(tailSegments) + trailBuffer + 1)
  /\ Len(tailPositions) = Len(tailSegments) + trailBuffer
  /\ tailPositions[Len(tailPositions)] = camera
  /\ camera.y = snakeHeight
  /\ camera.x < 0

\* C25: in every state the number of body segments equals the body length,
\* the length is 5 plus a multiple of 2, and it is 5 before the first start.
C25_SegmentsMatchLength ==
  /\ Len(tailSegments) = tailLength
  /\ tailLength >= initialTailLength
  /\ (tailLength - initialTailLength) % growth = 0
  /\ Idle => tailLength = initialTailLength

\* C25 witness: a session restarted after the wall has taken steps with its
\* 5 rebuilt segments, the first of which follows the player
C25_Witness ==
  /\ gameActive
  /\ overlay.msg = "wall"
  /\ Len(tailPositions) >= 3
  /\ Len(tailSegments) = 5
  /\ tailLength = 5
  /\ tailSegments[1] = Vec(camera.x, segmentY, camera.z)

\* a spawnLog entry as the spawn loop must have produced it: 1 to 10
\* candidates drawn, all but the last within 5 of the player, the last one
\* used, which is 5 or more away unless it is the 10th, and within +-48
SpawnEntryOk(e) ==
  LET n == Len(e.drawn)
      close(p) == (p.x - e.cam.x) * (p.x - e.cam.x)
                    + (p.z - e.cam.z) * (p.z - e.cam.z) < spawnMinDist * spawnMinDist
  IN /\ n >= 1
     /\ n <= maxTries
     /\ e.pos = e.drawn[n]
     /\ \A j \in 1..(n - 1) : close(e.drawn[j])
     /\ n < maxTries => ~close(e.pos)
     /\ Abs(e.pos.x) <= worldSize - spawnMargin
     /\ Abs(e.pos.z) <= worldSize - spawnMargin
     /\ e.pos.y = floorY + entityHeight

\* C26: every spawn call ends after at most 10 draws and uses the first
\* candidate at horizontal distance 5 or more from the player, or the 10th
\* one; the position has |x| <= 48 and |z| <= 48 and is the one the pickup
\* or adversary is placed at when a session starts.
C26_SpawnUsesFirstFarCandidate ==
  [][ /\ \A i \in 1..Len(spawnLog') : SpawnEntryOk(spawnLog'[i])
      /\ (~gameActive /\ gameActive') =>
           /\ Len(spawnLog') = Len(foods') + Len(enemies')
           /\ \A i \in 1..Len(foods') :
                /\ foods'[i] = spawnLog'[i].pos
                /\ spawnLog'[i].cam = camera'
           /\ \A i \in 1..Len(enemies') :
                /\ enemies'[i].pos = spawnLog'[Len(foods') + i].pos
                /\ spawnLog'[Len(foods') + i].cam = camera' ]_vars

\* C26 witness: a session started with a pickup placed exactly 5 away after
\* one closer candidate and an adversary placed at the 10th close candidate
C26_Witness ==
  /\ gameActive
  /\ Len(spawnLog) = 4
  /\ Len(spawnLog[1].drawn) = 2
  /\ foods[1] = Vec(30, floorY + entityHeight, 40)
  /\ Len(spawnLog[4].drawn) = maxTries
  /\ HorizLess(spawnLog[4].pos, spawnLog[4].cam, spawnMinDist)
  /\ Len(enemies) = 2
  /\ clockElapsed = 0

C28_ScoreCountsPickupsAndHits ==
  [][ LET fed == frameLog'.fed
          destroyed == frameLog'.hit
          start == ~gameActive /\ gameActive'
      IN /\ score >= 0
         /\ score' >= 0
         /\ (gameActive /\ gameActive') => score' >= score
         /\ start => /\ score' = 0
                     /\ tailLength' = 5
                     /\ 2 * score' = (tailLength' - 5) + 10 * (2 - Len(enemies'))
         /\ RunningFrame =>
              /\ score' = score + fed + 5 * destroyed
              /\ tailLength' = tailLength + 2 * fed
              /\ Len(enemies) - Len(enemies') <= destroyed
              /\ Len(enemies) - Len(enemies') >= destroyed - fed
              /\ Len(foods') = Len(foods)
              /\ Len(bullets') + frameLog'.out + destroyed = Len(bullets)
         /\ (~RunningFrame /\ ~start) =>
              /\ score' = score
              /\ tailLength' = tailLength
              /\ Len(enemies') = Len(enemies) ]_vars

\* C28 witness: a running session in which a projectile has destroyed an
\* adversary: score 5, length 5, one adversary left
C28_Witness ==
  /\ gameActive
  /\ score = 5
  /\ tailLength = 5
  /\ Len(enemies) = 1
  /\ frameLog.hit = 1
  /\ frameLog.fed = 0

\* s is t with some of its entries left out
IsSubSeqOf(s, t) ==
  \E f \in [1..Len(s) -> 1..Len(t)] :
    /\ \A k \in 1..Len(s) : s[k] = t[f[k]]
    /\ \A k \in 1..(Len(s) - 1) : f[k] < f[k + 1]

\* C29: the pitch stays within the clamp, so every projectile in the registry
\* has a non-zero horizontal velocity; it is the one computed when it was
\* fired from the player's position, input never changes a projectile, every
\* frame with dt > 0 moves each projectile it keeps by speed * dt along that
\* velocity and keeps none beyond the bounds plus margin; and while the
\* session runs and frames go on, a non-empty registry becomes empty.
C29_ProjectilesLeave ==
  /\ [][ LET flown(b) ==
               [pos |-> Vec(b.pos.x + (b.dir.x * bulletSpeed * FrameDt) \div dirScale,
                            b.pos.y + (b.dir.y * bulletSpeed * FrameDt) \div dirScale,
                            b.pos.z + (b.dir.z * bulletSpeed * FrameDt) \div dirScale),
                dir |-> b.dir]
             fired == [pos |-> camera,
                       dir |-> Vec(SinQ(yaw) * PitchCos(pitch), PitchSin(pitch),
                                   CosQ(yaw) * PitchCos(pitch))]
         IN /\ pitch' >= -maxPitch
            /\ pitch' <= maxPitch
            /\ \A i \in 1..Len(bullets') :
                 /\ bullets'[i].dir.x # 0 \/ bullets'[i].dir.z # 0
                 /\ Abs(bullets'[i].pos.x) <= worldSize + bulletMargin
                 /\ Abs(bullets'[i].pos.z) <= worldSize + bulletMargin
            /\ (RunningFrame /\ FrameDt > 0) =>
                 /\ IsSubSeqOf(bullets', [i \in 1..Len(bullets) |-> flown(bullets[i])])
                 /\ \A i \in 1..Len(bullets) :
                      flown(bullets[i]).pos.x # bullets[i].pos.x
                        \/ flown(bullets[i]).pos.z # bullets[i].pos.z
                 /\ Len(bullets') + frameLog'.out + frameLog'.hit = Len(bullets)
            /\ (gameActive /\ ~RunningFrame) =>
                 bullets' = bullets \/ bullets' = Append(bullets, fired) ]_vars
  /\ (gameActive /\ bullets # << >>) ~> (bullets = << >> \/ ~gameActive)

\* C29 witness: a projectile fired with the view half lowered, still in
\* flight after the player has lowered the view further and several frames
\* have run
C29_Witness ==
  /\ gameActive
  /\ clockElapsed > MaxHitTime + stepInterval
  /\ Len(bullets) = 1
  /\ bullets[1].dir = Vec(0, -3, 4)
  /\ pitch = -maxPitch
  /\ bullets[1].pos.y < 0

====
